---- MODULE Spec2Model ----
(***************************************************************************)
(* SawitDB storage core: the Pager (4 KiB page I/O with an LRU page cache, *)
(* page allocation, header page) and, on top of it, the table heap that    *)
(* the executors use.                                                      *)
(*                                                                         *)
(* A page is modelled by its first three little-endian 32-bit words and an *)
(* abstract tag for the remaining bytes:                                   *)
(*   w0   bytes [0..4)   header: magic          data page: next page-id    *)
(*   w1   bytes [4..8)   header: total pages    data page: count | free<<16*)
(*   w2   bytes [8..12)  header: table count                               *)
(*   rest the bytes after that, as a sequence: the header's catalog        *)
(*        entries, a data page's slots; <<>> = all zero                    *)
(* Buffers are modelled by value: every buffer handed to writePage is the  *)
(* caller's own buffer for that page.                                      *)
(***************************************************************************)
EXTENDS Integers, Sequences, FiniteSets, TLC

PAGE_SIZE == 4096
MAGIC == 1331122007

\* ---- bounds of the model
MaxPid == 2
MaxCacheLimit == 2

VARIABLES
    exists,      \* fs.existsSync(filePath)
    file,        \* the file's content, a sequence of pages (page p at index p+1)
    origin,      \* "none" | "created" (by _initNewFile) | "foreign" (found on disk)
    fd,          \* Pager.fd: "null" | "open"
    cache,       \* Pager.cache: a Map in insertion order, <<[pid, buf], ...>>
    cacheLimit,  \* Pager.cacheLimit
    last,        \* the last call made on the pager and its outcome
    allocated,   \* history: the ids allocPage has returned, in order
    lastWritten, \* history: per page, the bytes of the last completed writePage
    reopened,    \* history: the file has been closed and opened again
    recency,     \* history: the pages read since the open, least recently read first,
                 \* and whether readPage is all that was called since
    rows,        \* history: per table, the bag of rows inserted, as last updated, not deleted
    snap,        \* history: what readPage returned for each page just before close
    permissions,     \* SecurityManager.permissions: <<[user, table, action], ...>>
    permissionsPath, \* SecurityManager.permissionsPath: "null" | "set"
    permissionsFile, \* _permissions.json: "absent" | "invalid" | the list stored in it
    checked,         \* the last call made on the SecurityManager and its outcome
    triggers,        \* TriggerManager.triggers: <<[name, event, table_name, action], ...>>
    triggersLoaded,  \* loadTriggers has run on this TriggerManager
    triggerTable,    \* the system table _triggers: [exists, rows]
    stack,           \* the handleEvent activations in progress, the innermost last
    executed,        \* history: the trigger actions run by the last handleEvent of the engine
    trigLast,        \* the last call made on the TriggerManager and its outcome
    index,           \* SearchManager.index: the own properties, token -> <<[t, id], ...>>
    indexPath,       \* SearchManager.indexPath: "null" | "set"
    indexFile,       \* _fts_index.json: [state, index]
    indexedUnder,    \* history: <<table, id, token>> put in by indexRow, not since deindexed
    searched,        \* the last call made on the SearchManager and its outcome
    procedures,       \* ProcedureManager.procedures: the Map name -> body
    proceduresLoaded, \* loadProcedures has run on this ProcedureManager
    procLast,         \* the last call made on the ProcedureManager and its outcome
    role,            \* ReplicationManager.role
    primarySocket,   \* ReplicationManager.primarySocket: NoSocket or the socket's peer
    listeners,       \* the 'ANY' listeners registered on engine.dbevent by _enableCDC
    replLast         \* the last call made on the ReplicationManager and its outcome

storageVars == <<exists, file, origin, fd, cache, cacheLimit, last, allocated, lastWritten,
                 reopened, recency, rows, snap>>

securityVars == <<permissions, permissionsPath, permissionsFile, checked>>

triggerVars == <<triggers, triggersLoaded, triggerTable, stack, executed, trigLast>>

searchVars == <<index, indexPath, indexFile, indexedUnder, searched>>

procedureVars == <<procedures, proceduresLoaded, procLast>>

replicationVars == <<role, primarySocket, listeners, replLast>>

serviceVars == <<securityVars, triggerVars, searchVars, procedureVars, replicationVars>>

vars == <<storageVars, serviceVars>>

heapVars == <<rows>>

Pids == 0..MaxPid

\* ---- pages and buffers
Page(a, b, c, r) == [w0 |-> a, w1 |-> b, w2 |-> c, rest |-> r]
NoPage == Page(-1, -1, -1, <<>>)
ZeroPage == Page(0, 0, 0, <<>>)                   \* Buffer.alloc(PAGE_SIZE)
Buf(n, p) == [len |-> n, page |-> p]

\* readUInt16LE(4) and readUInt16LE(6) of a data page
slotCount(p) == p.w1 % 65536
freeOffset(p) == p.w1 \div 65536

\* ---- the pager object together with the file it works on
PagerState == [exists |-> exists, file |-> file, fd |-> fd,
               cache |-> cache, cacheLimit |-> cacheLimit]

Result(P, r, e) == [P |-> P, ret |-> r, err |-> e]

\* ---- JavaScript Map, in insertion order
has(c, pid) == \E i \in 1..Len(c) : c[i].pid = pid
get(c, pid) == c[CHOOSE i \in 1..Len(c) : c[i].pid = pid].buf
delete(c, pid) == SelectSeq(c, LAMBDA e : e.pid # pid)
\* Map.prototype.set: an existing key keeps its position, a new key goes last
set(c, pid, buf) ==
    IF has(c, pid)
    THEN [i \in 1..Len(c) |-> IF c[i].pid = pid THEN [pid |-> pid, buf |-> buf] ELSE c[i]]
    ELSE Append(c, [pid |-> pid, buf |-> buf])
firstKey(c) == c[1].pid

\* ---- the file: fs.readSync / fs.writeSync of one page at offset pid * PAGE_SIZE
\* a read at or past end of file reads 0 bytes and leaves the zeroed buffer as it is
readSync(f, pid) == IF pid + 1 <= Len(f) THEN f[pid + 1] ELSE ZeroPage
\* a write past end of file extends the file; the gap reads as zeros
writeSync(f, pid, page) ==
    [i \in 1..(IF pid + 1 > Len(f) THEN pid + 1 ELSE Len(f)) |->
        IF i = pid + 1 THEN page ELSE IF i <= Len(f) THEN f[i] ELSE ZeroPage]

\* ---- Pager
\* (variant: the header is written with total pages = 0)
initNewFileTotalZero(P) ==
    [P EXCEPT !.file = writeSync(@, 0, Page(MAGIC, 0, 0, <<>>))]

initNewFile(P) ==
    [P EXCEPT !.file = writeSync(@, 0, Page(MAGIC, 1, 0, <<>>))]

open(P) ==
    IF ~P.exists
    THEN initNewFile([P EXCEPT !.exists = TRUE, !.file = <<>>, !.fd = "open"])
    ELSE [P EXCEPT !.fd = "open"]

constructor(P, limit) ==
    open([P EXCEPT !.fd = "null", !.cache = <<>>, !.cacheLimit = limit])

\* (variant: a hit leaves the page where it is in the Map)
readPageNoPromote(P, pageId) ==
    IF has(P.cache, pageId)
    THEN Result(P, get(P.cache, pageId), "none")
    ELSE IF P.fd = "null"
    THEN Result(P, NoPage, "TypeError")
    ELSE LET buf == readSync(P.file, pageId)
             c1 == set(P.cache, pageId, buf)
             c2 == IF Len(c1) > P.cacheLimit THEN delete(c1, firstKey(c1)) ELSE c1
         IN Result([P EXCEPT !.cache = c2], buf, "none")

readPage(P, pageId) ==
    IF has(P.cache, pageId)
    THEN LET buf == get(P.cache, pageId)
         IN Result([P EXCEPT !.cache = set(delete(@, pageId), pageId, buf)], buf, "none")
    ELSE IF P.fd = "null"
    THEN Result(P, NoPage, "TypeError")          \* readSync on a closed pager: rethrown
    ELSE LET buf == readSync(P.file, pageId)
             c1 == set(P.cache, pageId, buf)
             c2 == IF Len(c1) > P.cacheLimit THEN delete(c1, firstKey(c1)) ELSE c1
         IN Result([P EXCEPT !.cache = c2], buf, "none")

\* (variant: the cache entry is not updated)
writePageStaleCache(P, pageId, b) ==
    IF b.len # PAGE_SIZE
    THEN Result(P, NoPage, "Buffer must be 4KB")
    ELSE IF P.fd = "null"
    THEN Result(P, NoPage, "TypeError")
    ELSE Result([P EXCEPT !.file = writeSync(@, pageId, b.page)], NoPage, "none")

\* (variant: the page reaches the cache but not the file)
writePageCacheOnly(P, pageId, b) ==
    IF b.len # PAGE_SIZE
    THEN Result(P, NoPage, "Buffer must be 4KB")
    ELSE IF P.fd = "null"
    THEN Result(P, NoPage, "TypeError")
    ELSE Result([P EXCEPT !.cache = set(@, pageId, b.page)], NoPage, "none")

\* (variant: the length of the buffer is not checked)
writePageAnyLength(P, pageId, b) ==
    IF P.fd = "null"
    THEN Result(P, NoPage, "TypeError")
    ELSE Result([P EXCEPT !.file = writeSync(@, pageId, b.page),
                          !.cache = set(@, pageId, b.page)], NoPage, "none")

writePage(P, pageId, b) ==
    IF b.len # PAGE_SIZE
    THEN Result(P, NoPage, "Buffer must be 4KB")
    ELSE IF P.fd = "null"
    THEN Result(P, NoPage, "TypeError")          \* writeSync on a closed pager
    ELSE Result([P EXCEPT !.file = writeSync(@, pageId, b.page),
                          !.cache = set(@, pageId, b.page)], NoPage, "none")

\* page0.writeUInt32LE(newTotal, 4) writes into the buffer object readPage returned,
\* which is the object the cache holds for page 0 (if page 0 is still cached)
pokeTotal(P, newTotal) ==
    IF has(P.cache, 0)
    THEN [P EXCEPT !.cache = set(@, 0, [get(@, 0) EXCEPT !.w1 = newTotal])]
    ELSE P

EmptyDataPage == Page(0, 0 + 8 * 65536, 0, <<>>)   \* next = 0, count = 0, free offset = 8

\* (variant: page 0 is written anew instead of being edited in place)
allocPageFreshHeader(P) ==
    LET r0 == readPage(P, 0)
    IN IF r0.err # "none" THEN Result(P, -1, r0.err)
       ELSE LET newPageId == r0.ret.w1
                r1 == writePage(r0.P, 0, Buf(PAGE_SIZE, Page(MAGIC, newPageId + 1, 0, <<>>)))
                r2 == writePage(r1.P, newPageId, Buf(PAGE_SIZE, EmptyDataPage))
            IN Result(r2.P, newPageId, "none")

\* (variant: the incremented total is not written back to the header)
allocPageNoBump(P) ==
    LET r0 == readPage(P, 0)
    IN IF r0.err # "none" THEN Result(P, -1, r0.err)
       ELSE LET page0 == r0.ret
                newPageId == page0.w1
                r1 == writePage(r0.P, 0, Buf(PAGE_SIZE, page0))
                r2 == writePage(r1.P, newPageId, Buf(PAGE_SIZE, EmptyDataPage))
            IN Result(r2.P, newPageId, "none")

allocPage(P) ==
    LET r0 == readPage(P, 0)
    IN IF r0.err # "none" THEN Result(P, -1, r0.err)
       ELSE LET page0 == r0.ret
                totalPages == page0.w1
                newPageId == totalPages
                newTotal == totalPages + 1
                P1 == pokeTotal(r0.P, newTotal)
                r1 == writePage(P1, 0, Buf(PAGE_SIZE, [page0 EXCEPT !.w1 = newTotal]))
                r2 == writePage(r1.P, newPageId, Buf(PAGE_SIZE, EmptyDataPage))
            IN Result(r2.P, newPageId, "none")

close(P) ==
    IF P.fd # "null" THEN [P EXCEPT !.fd = "null", !.cache = <<>>] ELSE P

\* ---- what the callers pass
\* the header as the pager currently serves it
header(P) == IF has(P.cache, 0) THEN get(P.cache, 0) ELSE readSync(P.file, 0)
totalPagesOf(P) == header(P).w1

\* data pages a table heap writes: an empty page linked to page 2, a page with one slot
DataPages == {Page(2, 0 + 8 * 65536, 0, <<>>), Page(0, 1 + 20 * 65536, 0, <<"slot">>)}
\* the catalog rewrites page 0 in place: it edits the table count and the entries
\* and leaves the magic and the total-pages word (owned by allocPage) as they are
HeaderEdits(P) == {[header(P) EXCEPT !.w2 = n, !.rest = [i \in 1..n |-> "entry"]] : n \in 0..1}
BufLens == {PAGE_SIZE, PAGE_SIZE - 1}
WriteBufs(P, pid) ==
    {Buf(n, p) : n \in BufLens, p \in IF pid = 0 THEN HeaderEdits(P) ELSE DataPages}

\* callers write page 0 and the pages allocPage gave them
WritePids(P) == {pid \in Pids : pid = 0 \/ pid < totalPagesOf(P)}

\* files found on disk that no pager wrote: an empty file, a page of something else
ForeignFiles == {<<>>, <<Page(7, 7, 7, <<"bytes">>)>>}

\* ======================================================================
\* Catalog, row codec, table heap and executors
\* ======================================================================
TableNames == {"kebun"}

\* ---- records and the row codec
RecIds == {1, 2}
RecVals == {0, 1}
Recs == [id : RecIds, val : RecVals]
\* the encoded record and its length in bytes: val = 1 stands for a long string value
encode(rec) == <<rec.id, rec.val>>
decode(bytes) == [id |-> bytes[1], val |-> bytes[2]]
byteLen(bytes) == IF bytes[2] = 0 THEN 1500 ELSE 3000

\* ---- predicates: one {key, op, val} leaf, or none
NoCriteria == [key |-> "", op |-> "", val |-> 0]
Criteria ==
    {NoCriteria} \cup [key : {"id"}, op : {"="}, val : RecIds]
                 \cup [key : {"val"}, op : {">"}, val : {0}]
fieldOf(rec, key) == IF key = "id" THEN rec.id ELSE rec.val
evaluate(c, rec) ==
    CASE c.op = "" -> TRUE
      [] c.op = "=" -> fieldOf(rec, c.key) = c.val
      [] c.op = "!=" -> fieldOf(rec, c.key) # c.val
      [] c.op = ">" -> fieldOf(rec, c.key) > c.val
\* UPDATE ... SET val = v
Assignments == [val : RecVals]
applyUpdates(rec, updates) == [rec EXCEPT !.val = updates.val]

\* ---- catalog: the entries of the header page
Entry(name, head, sys) == [name |-> name, head |-> head, sys |-> sys]
NoEntry == Entry("", 0, FALSE)

\* the entry of the table in the header page r.ret, the lowest index first
entryIn(r, name) ==
    LET ents == r.ret.rest
        found == {i \in 1..r.ret.w2 : ents[i].name = name}
    IN [P |-> r.P,
        entry |-> IF found = {} THEN NoEntry
                  ELSE ents[CHOOSE i \in found : \A j \in found : i <= j]]

findTableEntry(P, name) == entryIn(readPage(P, 0), name)

\* the header h.ret gains the entry of the new table, whose heap starts at page head
addEntry(h, name, head, isSystem) ==
    LET page0 == [h.ret EXCEPT !.w2 = @ + 1,
                               !.rest = Append(@, Entry(name, head, isSystem))]
    IN Result(writePage(h.P, 0, Buf(PAGE_SIZE, page0)).P, NoPage, "none")

\* a is the result of allocPage: the first page of the new table's heap
createAt(a, name, isSystem) == addEntry(readPage(a.P, 0), name, a.ret, isSystem)

\* (variant: the catalog is not consulted)
createAlways(f, name, isSystem) == createAt(allocPage(f.P), name, isSystem)

createIfAbsent(f, name, isSystem) ==
    IF f.entry # NoEntry THEN Result(f.P, NoPage, "TableExists")
    ELSE createAt(allocPage(f.P), name, isSystem)

createTable(P, name, isSystem) == createIfAbsent(findTableEntry(P, name), name, isSystem)

\* ---- data pages: slots of (length, payload); a deleted slot keeps its length and
\* carries the tombstone bit
Slot(bytes) == [len |-> byteLen(bytes), payload |-> bytes, dead |-> FALSE]
packW1(count, free) == count + free * 65536

\* steps 2-4 of Insert, from page pid on
RECURSIVE insertFrom(_, _, _)

\* step 4: a is the result of allocPage; page pid is linked to the new page and the
\* record goes there
insertLinked(a, pg, pid, bytes) ==
    insertFrom(writePage(a.P, pid, Buf(PAGE_SIZE, [pg EXCEPT !.w0 = a.ret])).P, a.ret, bytes)

\* pg is page pid as read
insertAt(P, pg, pid, bytes) ==
    LET F == freeOffset(pg)
        C == slotCount(pg)
        len == byteLen(bytes)
        pg2 == [pg EXCEPT !.w1 = packW1(C + 1, F + 2 + len),
                          !.rest = Append(@, Slot(bytes))]
    IN IF F + 2 + len <= PAGE_SIZE
       THEN Result(writePage(P, pid, Buf(PAGE_SIZE, pg2)).P, <<pid, C>>, "none")
       ELSE IF pg.w0 # 0 THEN insertFrom(P, pg.w0, bytes)
       ELSE IF totalPagesOf(P) > MaxPid THEN Result(P, <<>>, "bound")
       ELSE insertLinked(allocPage(P), pg, pid, bytes)

insertRead(r, pid, bytes) == insertAt(r.P, r.ret, pid, bytes)

insertFrom(P, pid, bytes) == insertRead(readPage(P, pid), pid, bytes)

insert(P, head, rec) ==
    IF byteLen(encode(rec)) + 2 > PAGE_SIZE - 8
    THEN Result(P, <<>>, "RecordTooLarge")
    ELSE insertFrom(P, head, encode(rec))

\* Scan: chain order, then slot order; tombstoned slots are skipped
RECURSIVE liveRows(_, _, _, _)
liveRows(pg, i, C, pred) ==
    IF i > C THEN <<>>
    ELSE LET s == pg.rest[i]
         IN (IF ~s.dead /\ evaluate(pred, decode(s.payload))
             THEN <<decode(s.payload)>> ELSE <<>>) \o liveRows(pg, i + 1, C, pred)

RECURSIVE scan(_, _, _)

scanJoin(here, more) == Result(more.P, here \o more.ret, "none")

scanRead(r, pred) ==
    IF r.ret.w0 = 0
    THEN Result(r.P, liveRows(r.ret, 1, slotCount(r.ret), pred), "none")
    ELSE scanJoin(liveRows(r.ret, 1, slotCount(r.ret), pred), scan(r.P, r.ret.w0, pred))

scan(P, pid, pred) == scanRead(readPage(P, pid), pred)

\* Update: walk the chain from slot i of page pid
RECURSIVE update(_, _, _, _, _, _)

\* slot i of page pid: a new encoding that fits the old slot is rewritten in place
\* and the page's free offset follows; otherwise the slot is tombstoned and the new
\* encoding inserted as a fresh slot
updateSlot(P, pg, head, pid, i, pred, updates) ==
    LET s == pg.rest[i]
        bytes == encode(applyUpdates(decode(s.payload), updates))
        n == byteLen(bytes)
        inPlace == [pg EXCEPT !.rest[i] = Slot(bytes),
                              !.w1 = packW1(slotCount(pg), freeOffset(pg) - (s.len - n))]
        tombstoned == [pg EXCEPT !.rest[i].dead = TRUE]
    IN IF s.dead \/ ~evaluate(pred, decode(s.payload))
       THEN Result(P, <<>>, "none")
       ELSE IF n <= s.len
       THEN writePage(P, pid, Buf(PAGE_SIZE, inPlace))
       ELSE insert(writePage(P, pid, Buf(PAGE_SIZE, tombstoned)).P, head, decode(bytes))

\* step is the outcome of updateSlot for slot i
updateNext(step, head, pid, i, pred, updates) ==
    IF step.err # "none" THEN Result(step.P, <<>>, step.err)
    ELSE update(step.P, head, pid, i + 1, pred, updates)

updateRead(r, head, pid, i, pred, updates) ==
    IF i > slotCount(r.ret)
    THEN IF r.ret.w0 = 0 THEN Result(r.P, <<>>, "none")
         ELSE update(r.P, head, r.ret.w0, 1, pred, updates)
    ELSE updateNext(updateSlot(r.P, r.ret, head, pid, i, pred, updates),
                    head, pid, i, pred, updates)

update(P, head, pid, i, pred, updates) ==
    updateRead(readPage(P, pid), head, pid, i, pred, updates)

\* Delete: walk the chain from slot i of page pid
RECURSIVE delete_(_, _, _, _)

\* slot i of page pid: a matched slot is tombstoned; a matched last slot of the page
\* is removed
deleteSlot(P, pg, pid, i, pred) ==
    LET s == pg.rest[i]
        C == slotCount(pg)
        pg2 == IF i = C
               THEN [pg EXCEPT !.rest = SubSeq(@, 1, C - 1),
                               !.w1 = packW1(C - 1, freeOffset(pg) - 2 - s.len)]
               ELSE [pg EXCEPT !.rest[i].dead = TRUE]
    IN IF s.dead \/ ~evaluate(pred, decode(s.payload))
       THEN Result(P, <<>>, "none")
       ELSE writePage(P, pid, Buf(PAGE_SIZE, pg2))

deleteRead(r, pid, i, pred) ==
    IF i > slotCount(r.ret)
    THEN IF r.ret.w0 = 0 THEN Result(r.P, <<>>, "none")
         ELSE delete_(r.P, r.ret.w0, 1, pred)
    ELSE delete_(deleteSlot(r.P, r.ret, pid, i, pred).P, pid, i + 1, pred)

delete_(P, pid, i, pred) == deleteRead(readPage(P, pid), pid, i, pred)

\* ---- executors: resolve the table through the catalog, then work on its heap
executeOn(f, q) ==
    IF f.entry = NoEntry THEN Result(f.P, <<>>, "TableNotFound")
    ELSE CASE q.type = "INSERT" -> insert(f.P, f.entry.head, q.data)
           [] q.type = "SELECT" -> scan(f.P, f.entry.head, q.criteria)
           [] q.type = "UPDATE" -> update(f.P, f.entry.head, f.entry.head, 1,
                                          q.criteria, q.updates)
           [] q.type = "DELETE" -> delete_(f.P, f.entry.head, 1, q.criteria)

execute(P, q) == executeOn(findTableEntry(P, q.table), q)

NoData == [id |-> 0, val |-> 0]
NoUpdates == [val |-> 0]
Query(type, table, data, criteria, updates) ==
    [type |-> type, table |-> table, data |-> data, criteria |-> criteria,
     updates |-> updates]

\* ---- bags of rows
EmptyBag == [rec \in Recs |-> 0]
BagOfSeq(s) == [rec \in Recs |-> Cardinality({i \in 1..Len(s) : s[i] = rec})]
BagWhere(b, c) == [rec \in Recs |-> IF evaluate(c, rec) THEN b[rec] ELSE 0]
\* every row that satisfies c takes its updated value
BagUpdate(b, c, updates) ==
    [rec \in Recs |->
        (IF evaluate(c, rec) THEN 0 ELSE b[rec])
        + LET from == {o \in Recs : evaluate(c, o) /\ applyUpdates(o, updates) = rec
                                    /\ b[o] > 0}
              RECURSIVE Sum(_)
              Sum(S) == IF S = {} THEN 0
                        ELSE LET o == CHOOSE x \in S : TRUE IN b[o] + Sum(S \ {o})
          IN Sum(from)]

\* ======================================================================
\* SecurityManager
\* ======================================================================
MaxPermissions == 2

SecUsers == {"", "admin", "alice", "bob"}      \* "" : no user (local mode)
SecTables == {"kebun", "sawah"}
SecActions == {"read", "write"}
\* what grant and revoke are called with
Grants == [user : {"alice", "bob"}, table : {"kebun", "*"}, action : {"read", "all"}]
\* _permissions.json as found by init
PermFile(state, list) == [state |-> state, list |-> list]
AbsentFile == PermFile("absent", <<>>)
PermissionFiles ==
    {AbsentFile, PermFile("invalid", <<>>), PermFile("json", <<>>),
     PermFile("json", <<[user |-> "alice", table |-> "*", action |-> "read"]>>)}

filter(seq, keep(_)) == SelectSeq(seq, keep)
some(seq, test(_)) == \E i \in 1..Len(seq) : test(seq[i])

SecResult(perms, path, f, ret, err) ==
    [permissions |-> perms, permissionsPath |-> path, permissionsFile |-> f,
     ret |-> ret, err |-> err]

\* save(): JSON.stringify(this.permissions) to the file, if the path is set
secSave(perms, path, f) == IF path = "null" THEN f ELSE PermFile("json", perms)

\* init(): an existing file is parsed (a file that does not parse gives the empty
\* list); without a file the current list is saved
secInit(perms, f) ==
    IF f.state # "absent"
    THEN SecResult(IF f.state = "invalid" THEN <<>> ELSE f.list, "set", f, "", "none")
    ELSE SecResult(perms, "set", secSave(perms, "set", f), "", "none")

\* (variant: an identical entry is not removed first)
grantPushOnly(perms, path, f, user, table, action) ==
    LET pushed == Append(perms, [user |-> user, table |-> table, action |-> action])
    IN SecResult(pushed, path, secSave(pushed, path, f), "granted", "none")

grant(perms, path, f, user, table, action) ==
    LET kept == filter(perms, LAMBDA p : ~(p.user = user /\ p.table = table
                                                     /\ p.action = action))
        pushed == Append(kept, [user |-> user, table |-> table, action |-> action])
    IN SecResult(pushed, path, secSave(pushed, path, f), "granted", "none")

revoke(perms, path, f, user, table, action) ==
    LET kept == filter(perms, LAMBDA p : ~(p.user = user /\ p.table = table
                                                     /\ p.action = action))
    IN SecResult(kept, path, secSave(kept, path, f),
                 IF Len(kept) < Len(perms) THEN "revoked" ELSE "not found", "none")

\* (variant: the wildcard table and the action 'all' are not honoured)
checkExact(perms, user, table, action) ==
    IF user = "" THEN [ret |-> "true", err |-> "none"]
    ELSE IF user = "admin" THEN [ret |-> "true", err |-> "none"]
    ELSE IF ~some(perms, LAMBDA p : p.user = user /\ p.table = table /\ p.action = action)
    THEN [ret |-> "", err |-> "AccessDenied"]
    ELSE [ret |-> "true", err |-> "none"]

check(perms, user, table, action) ==
    IF user = "" THEN [ret |-> "true", err |-> "none"]
    ELSE IF user = "admin" THEN [ret |-> "true", err |-> "none"]
    ELSE IF ~some(perms, LAMBDA p : /\ p.user = user
                                    /\ (p.table = table \/ p.table = "*")
                                    /\ (p.action = action \/ p.action = "all"))
    THEN [ret |-> "", err |-> "AccessDenied"]
    ELSE [ret |-> "true", err |-> "none"]

SecCall(op, user, table, action, outcome, before) ==
    [op |-> op, user |-> user, table |-> table, action |-> action,
     outcome |-> outcome, before |-> before]

\* ======================================================================
\* TriggerManager
\* ======================================================================
MaxDepth == 3                                   \* JavaScript call stack: nested handleEvent

TriggerNames == {"t1", "t2"}
\* events as passed to createTrigger and to handleEvent
TriggerEvents == {"INSERT", "insert", "DELETE", "SELECT"}
EventTables == {"kebun", "log"}
\* action queries: a statement the engine runs, or text that does not parse
ActionQuery(type, table) == [type |-> type, table |-> table]
ActionQueries ==
    {ActionQuery("INSERT", "kebun"), ActionQuery("INSERT", "log"), ActionQuery("bad", "")}

\* String.prototype.toUpperCase on the event names and role names in use
toUpperCase(e) ==
    CASE e = "insert" -> "INSERT"
      [] e = "delete" -> "DELETE"
      [] e = "select" -> "SELECT"
      [] e = "primary" -> "PRIMARY"
      [] e = "Replica" -> "REPLICA"
      [] e = "cabang" -> "CABANG"
      [] e = "standalone" -> "STANDALONE"
      [] e = "mati" -> "MATI"
      [] OTHER -> e

TrigState == [triggers |-> triggers, table |-> triggerTable]
\* the manager and the system table after a call, the error thrown, and the statements
\* the call handed to the executors
TrigResult(T, err, issued) == [T |-> T, err |-> err, issued |-> issued]

\* the executors on the system table _triggers
insertTriggerRow(table, row) == [table EXCEPT !.rows = Append(@, row)]
deleteTriggerRows(table, name) ==
    [table EXCEPT !.rows = SelectSeq(@, LAMBDA row : row.name # name)]

loadTriggers(T) ==
    IF ~T.table.exists
    THEN [T EXCEPT !.table = [exists |-> TRUE, rows |-> <<>>]]
    ELSE [T EXCEPT !.triggers = T.table.rows]

\* (variant: the name is not looked up in the list)
createTriggerAnyName(T, triggerName, event, table, actionQuery) ==
    IF toUpperCase(event) \notin {"INSERT", "UPDATE", "DELETE"}
    THEN TrigResult(T, "Invalid trigger event", <<>>)
    ELSE LET triggerDef == [name |-> triggerName, event |-> toUpperCase(event),
                            table_name |-> table, action |-> actionQuery]
         IN TrigResult([triggers |-> Append(T.triggers, triggerDef),
                        table |-> insertTriggerRow(T.table, triggerDef)], "none",
                       <<"INSERT">>)

createTrigger(T, triggerName, event, table, actionQuery) ==
    IF some(T.triggers, LAMBDA t : t.name = triggerName)
    THEN TrigResult(T, "already exists", <<>>)
    ELSE IF toUpperCase(event) \notin {"INSERT", "UPDATE", "DELETE"}
    THEN TrigResult(T, "Invalid trigger event", <<>>)
    ELSE LET triggerDef == [name |-> triggerName, event |-> toUpperCase(event),
                            table_name |-> table, action |-> actionQuery]
         IN TrigResult([triggers |-> Append(T.triggers, triggerDef),
                        table |-> insertTriggerRow(T.table, triggerDef)], "none",
                       <<"INSERT">>)

findIndex(seq, test(_)) ==
    IF \E i \in 1..Len(seq) : test(seq[i])
    THEN CHOOSE i \in 1..Len(seq) : test(seq[i]) /\ \A j \in 1..(i - 1) : ~test(seq[j])
    ELSE 0
splice(seq, at) == SubSeq(seq, 1, at - 1) \o SubSeq(seq, at + 1, Len(seq))

dropTrigger(T, triggerName) ==
    LET at == findIndex(T.triggers, LAMBDA t : t.name = triggerName)
    IN IF at = 0
       THEN TrigResult(T, "not found", <<>>)
       ELSE TrigResult([triggers |-> splice(T.triggers, at),
                        table |-> deleteTriggerRows(T.table, triggerName)], "none",
                       <<"DELETE">>)

\* handleEvent, entry: the triggers of this event and table, as of now
Frame(relevant) == [relevant |-> relevant, i |-> 1]

\* (variant: every trigger of the table is taken, whatever its event)
relevantTriggersAnyEvent(trigs, event, table) ==
    filter(trigs, LAMBDA t : t.table_name = table)

relevantTriggers(trigs, event, table) ==
    filter(trigs, LAMBDA t : t.event = event /\ t.table_name = table)

\* engine.query(action) as handleEvent sees it: it throws (caught and logged), or the
\* statement runs and the engine delivers its event to handleEvent before it returns
QueryOutcomes(q, depth) ==
    IF q.type = "bad" \/ depth >= MaxDepth THEN {"throws"} ELSE {"throws", "emits"}

TrigCall(op, event, table, status) ==
    [op |-> op, event |-> event, table |-> table, status |-> status,
     name |-> "", issued |-> <<>>]

\* ======================================================================
\* SearchManager
\* ======================================================================
\* ---- text: a string is the sequence of its whitespace-separated words
Words == {"Sawit", "karet,", "dan", "di", "constructor"}
\* toLowerCase().replace(/[^\w\s]/g, '') of a word
normalize(w) ==
    CASE w = "Sawit" -> "sawit"
      [] w = "karet," -> "karet"
      [] OTHER -> w
length(w) ==
    CASE w = "sawit" -> 5
      [] w = "karet" -> 5
      [] w = "dan" -> 3
      [] w = "di" -> 2
      [] w = "constructor" -> 11
stopWords == {"dan", "atau", "yang", "di", "ke", "dari", "ini", "itu",
              "the", "and", "or", "of", "to", "in"}

\* a column value or a search term: a string, or something that is not a string
Str(words) == [kind |-> "string", words |-> words]
Num == [kind |-> "number", words |-> <<>>]
Texts == {Str(<<"Sawit">>), Str(<<"Sawit", "dan", "karet,">>), Str(<<"karet,">>),
          Str(<<"dan", "di">>), Str(<<"constructor">>)}

tokenize(text) ==
    IF text.kind # "string" \/ text.words = <<>> THEN <<>>
    ELSE LET lowered == [i \in 1..Len(text.words) |-> normalize(text.words[i])]
         IN SelectSeq(lowered, LAMBDA w : length(w) > 2 /\ w \notin stopWords)

\* ---- the index object
EmptyIndex == [token \in {} |-> <<>>]
\* properties every object inherits from Object.prototype, among the tokens in use
ObjectPrototype == {"constructor"}
\* this.index[token]: an own property, else an inherited one, else undefined
property(ix, token) ==
    IF token \in DOMAIN ix THEN [kind |-> "array", entries |-> ix[token]]
    ELSE IF token \in ObjectPrototype THEN [kind |-> "function", entries |-> <<>>]
    ELSE [kind |-> "undefined", entries |-> <<>>]

Posting(table, id) == [t |-> table, id |-> id]

\* save(): the index goes to the file, if the path is set
searchSave(ix, path, f) == IF path = "null" THEN f ELSE [state |-> "json", index |-> ix]

searchInit(ix, f) == IF f.state = "json" THEN f.index ELSE ix

\* the two nested loops of indexRow over the tokens of the columns, in order;
\* calling find on an inherited property (a function) is a TypeError
RECURSIVE indexTokens(_, _, _, _)
indexTokens(ix, tokens, table, id) ==
    IF tokens = <<>> THEN [index |-> ix, err |-> "none"]
    ELSE IF property(ix, Head(tokens)).kind = "function"
    THEN [index |-> ix, err |-> "TypeError"]
    ELSE indexTokens(
            IF some(property(ix, Head(tokens)).entries, LAMBDA e : e.t = table /\ e.id = id)
            THEN ix
            ELSE [token \in DOMAIN ix \cup {Head(tokens)} |->
                    IF token = Head(tokens)
                    THEN Append(property(ix, token).entries, Posting(table, id))
                    ELSE ix[token]],
            Tail(tokens), table, id)

\* Object.entries(data): the tokens of every column value, column by column
RECURSIVE tokensOf(_)
tokensOf(data) ==
    IF data = <<>> THEN <<>> ELSE tokenize(Head(data)) \o tokensOf(Tail(data))

indexRow(ix, table, id, data) == indexTokens(ix, tokensOf(data), table, id)

deindexRow(ix, table, id) ==
    LET kept(token) == filter(ix[token], LAMBDA e : ~(e.t = table /\ e.id = id))
    IN [token \in {k \in DOMAIN ix : kept(k) # <<>>} |-> kept(token)]

\* the for loop of search: candidateIds after the tokens, null before the first
Ids(entries, table) == {entries[i].id : i \in {j \in 1..Len(entries) : entries[j].t = table}}
RECURSIVE candidates(_, _, _, _, _)
candidates(ix, tokens, table, candidateIds, isNull) ==
    IF tokens = <<>> THEN [ids |-> candidateIds, err |-> "none"]
    ELSE IF property(ix, Head(tokens)).kind = "function"
    THEN [ids |-> {}, err |-> "TypeError"]
    ELSE LET ids == Ids(property(ix, Head(tokens)).entries, table)
             narrowed == IF isNull THEN ids ELSE candidateIds \cap ids
         IN IF narrowed = {} THEN [ids |-> {}, err |-> "none"]
            ELSE candidates(ix, Tail(tokens), table, narrowed, FALSE)

\* the rows of the engine's tables, as getAllRows returns them
SearchTables == {"kebun", "sawah"}
RowIds == {1, 2}
allRows(table) == IF table = "kebun" THEN {[id |-> 1], [id |-> 2]} ELSE {[id |-> 1]}

SearchResult(ret, err) == [ret |-> ret, err |-> err]

\* hasGetRow: manager.pager.getRow exists (the Pager class defines no getRow)
search(ix, table, term, hasGetRow) ==
    IF tokenize(term) = <<>> THEN SearchResult({}, "none")
    ELSE IF candidates(ix, tokenize(term), table, {}, TRUE).err # "none"
    THEN SearchResult({}, candidates(ix, tokenize(term), table, {}, TRUE).err)
    ELSE IF table \notin SearchTables THEN SearchResult({}, "none")
    ELSE IF candidates(ix, tokenize(term), table, {}, TRUE).ids # {} /\ ~hasGetRow
    THEN SearchResult({}, "TypeError")
    ELSE SearchResult({r \in allRows(table) :
                         r.id \in candidates(ix, tokenize(term), table, {}, TRUE).ids},
                      "none")

SearchCall(op, table, term, status, ret) ==
    [op |-> op, table |-> table, term |-> term, status |-> status, ret |-> ret, id |-> 0]

\* ======================================================================
\* ProcedureManager
\* ======================================================================
\* The row {name, body} of _procedures is stored as the heap record whose id field
\* holds the name and whose val field holds the body (a short or a long text); the
\* timestamps of the row are left out.
ProcedureTable == "_procedures"
ProcedureNames == RecIds
ProcedureBodies == RecVals
ProcedureRow(name, body) == [id |-> name, val |-> body]
ByName(name) == [key |-> "id", op |-> "=", val |-> name]

\* ---- JavaScript Map name -> body
EmptyMap == [name \in {} |-> 0]
mapSet(map, name, body) ==
    [n \in DOMAIN map \cup {name} |-> IF n = name THEN body ELSE map[n]]
mapDelete(map, name) == [n \in DOMAIN map \ {name} |-> map[n]]

ProcResult(P, map, err) == [P |-> P, procedures |-> map, err |-> err]

\* for (const proc of results) this.procedures.set(proc.name, proc.body)
RECURSIVE setAll(_, _)
setAll(map, results) ==
    IF results = <<>> THEN map
    ELSE setAll(mapSet(map, Head(results).id, Head(results).val), Tail(results))

\* r is what the SELECT on _procedures returned
loadResults(r, map) ==
    IF r.err # "none" THEN ProcResult(r.P, map, r.err)
    ELSE ProcResult(r.P, setAll(map, r.ret), "none")

\* f is what findTableEntry('_procedures') returned; an error of createTable is ignored
loadFrom(f, map) ==
    IF f.entry = NoEntry
    THEN ProcResult(createTable(f.P, ProcedureTable, TRUE).P, map, "none")
    ELSE loadResults(execute(f.P, Query("SELECT", ProcedureTable, NoData, NoCriteria,
                                        NoUpdates)), map)

loadProcedures(P, map) == loadFrom(findTableEntry(P, ProcedureTable), map)

\* r is what the executor returned: an error is thrown before the map is touched
saved(r, map, name, body) ==
    IF r.err # "none" THEN ProcResult(r.P, map, r.err)
    ELSE ProcResult(r.P, mapSet(map, name, body), "none")

\* (variant: the row is always inserted)
saveProcedureInsertOnly(P, map, name, body) ==
    saved(execute(P, Query("INSERT", ProcedureTable, ProcedureRow(name, body),
                           NoCriteria, NoUpdates)), map, name, body)

saveProcedure(P, map, name, body) ==
    IF name \in DOMAIN map
    THEN saved(execute(P, Query("UPDATE", ProcedureTable, NoData, ByName(name),
                                [val |-> body])), map, name, body)
    ELSE saved(execute(P, Query("INSERT", ProcedureTable, ProcedureRow(name, body),
                                NoCriteria, NoUpdates)), map, name, body)

dropped(r, map, name) ==
    IF r.err # "none" THEN ProcResult(r.P, map, r.err)
    ELSE ProcResult(r.P, mapDelete(map, name), "none")

dropProcedure(P, map, name) ==
    IF name \notin DOMAIN map THEN ProcResult(P, map, "not found")
    ELSE dropped(execute(P, Query("DELETE", ProcedureTable, NoData, ByName(name),
                                  NoUpdates)), map, name)

ProcCall(op, name, body, status) ==
    [op |-> op, name |-> name, body |-> body, status |-> status]

\* ======================================================================
\* ReplicationManager
\* ======================================================================
MaxListeners == 2

\* role names as passed to configure
RoleNames == {"primary", "PUSAT", "Replica", "cabang", "standalone", "mati"}
\* host and port as passed to configure: "" and 0 stand for null (the default)
Hosts == {"", "10.0.0.1", "10.0.0.2"}
Ports == {0, 7878}

NoSocket == [host |-> "", port |-> 0]
Socket(host, port) == [host |-> host, port |-> port]

ReplState == [role |-> role, primarySocket |-> primarySocket, listeners |-> listeners]
ReplResult(R, err) == [R |-> R, err |-> err]

\* if (this.engine.dbevent) this.engine.dbevent.on('ANY', ...): one more listener
\* on every call
enableCDC(R, hasDbevent) == IF hasDbevent THEN [R EXCEPT !.listeners = @ + 1] ELSE R

\* the old socket, if any, is destroyed; the new one takes its place
connectToPrimary(R, host, port) == [R EXCEPT !.primarySocket = Socket(host, port)]

\* (variant: host and port are not checked)
configureUnchecked(R, roleName, host, port, hasDbevent) ==
    IF toUpperCase(roleName) \in {"PRIMARY", "PUSAT"}
    THEN ReplResult(enableCDC([R EXCEPT !.role = "PRIMARY"], hasDbevent), "none")
    ELSE IF toUpperCase(roleName) \in {"REPLICA", "CABANG"}
    THEN ReplResult(connectToPrimary([R EXCEPT !.role = "REPLICA"], host, port), "none")
    ELSE ReplResult([R EXCEPT !.role = "STANDALONE"], "none")

configure(R, roleName, host, port, hasDbevent) ==
    IF toUpperCase(roleName) = "PRIMARY" \/ toUpperCase(roleName) = "PUSAT"
    THEN ReplResult(enableCDC([R EXCEPT !.role = "PRIMARY"], hasDbevent), "none")
    ELSE IF toUpperCase(roleName) = "REPLICA" \/ toUpperCase(roleName) = "CABANG"
    THEN IF host = "" \/ port = 0
         THEN ReplResult(R, "Replica requires Host and Port of Primary.")
         ELSE ReplResult(connectToPrimary([R EXCEPT !.role = "REPLICA"], host, port), "none")
    ELSE ReplResult([R EXCEPT !.role = "STANDALONE"], "none")

ReplCall(op, roleName, host, port, status, before) ==
    [op |-> op, roleName |-> roleName, host |-> host, port |-> port,
     status |-> status, before |-> before]

\* ======================================================================
\* The operations
\* ======================================================================
\* the order in which the pages were last read, while only readPage is called
ReadOnly(order) == [readOnly |-> TRUE, order |-> order]
Mixed == [readOnly |-> FALSE, order |-> <<>>]
touched(rc, pid) ==
    IF rc.readOnly
    THEN ReadOnly(Append(SelectSeq(rc.order, LAMBDA k : k # pid), pid))
    ELSE rc

Call(op, pid, len, status, ret) ==
    [op |-> op, pid |-> pid, len |-> len, status |-> status, ret |-> ret, hit |-> FALSE]
\* new Pager(filePath): whether the path existed, and the error thrown, if any
Opened(existed) == Call(IF existed THEN "open" ELSE "create", -1, 0, "none", NoPage)

Install(P) ==
    /\ exists' = P.exists
    /\ file' = P.file
    /\ fd' = P.fd
    /\ cache' = P.cache
    /\ cacheLimit' = P.cacheLimit

\* before the first new Pager(filePath)
\* the managers as constructed, before their init
NoSecurity(f) ==
    /\ permissions = <<>>
    /\ permissionsPath = "null"
    /\ permissionsFile = f
    /\ checked = SecCall("none", "", "", "", "none", <<>>)

NoTriggers ==
    /\ triggers = <<>>
    /\ triggersLoaded = FALSE
    /\ triggerTable = [exists |-> FALSE, rows |-> <<>>]
    /\ stack = <<>>
    /\ executed = <<>>
    /\ trigLast = TrigCall("none", "", "", "none")

NoSearch ==
    /\ index = EmptyIndex
    /\ indexPath = "null"
    /\ indexFile = [state |-> "absent", index |-> EmptyIndex]
    /\ indexedUnder = {}
    /\ searched = SearchCall("none", "", <<>>, "none", {})

NoProcedures ==
    /\ procedures = EmptyMap
    /\ proceduresLoaded = FALSE
    /\ procLast = ProcCall("none", 0, 0, "none")

NoReplication ==
    /\ role = "STANDALONE"
    /\ primarySocket = NoSocket
    /\ listeners = 0
    /\ replLast = ReplCall("none", "", "", 0, "none", ReplState)

NoServices ==
    NoSecurity(AbsentFile) /\ NoTriggers /\ NoSearch /\ NoProcedures /\ NoReplication

NoPager ==
    /\ fd = "null"
    /\ cache = <<>>
    /\ cacheLimit = 0
    /\ last = Call("none", -1, 0, "none", NoPage)
    /\ allocated = <<>>
    /\ lastWritten = [p \in Pids |-> NoPage]
    /\ reopened = FALSE
    /\ recency = ReadOnly(<<>>)
    /\ snap = [p \in Pids |-> NoPage]
    /\ rows = [t \in TableNames |-> EmptyBag]

\* the path does not exist yet
NoFile == NoPager /\ exists = FALSE /\ file = <<>> /\ origin = "none"

Init == NoFile /\ NoServices

\* the path names a file that no pager wrote
InitForeign ==
    NoPager /\ exists = TRUE /\ file \in ForeignFiles /\ origin = "foreign" /\ NoServices

\* new Pager(filePath), with the cache cap then set to limit
Open ==
    /\ fd = "null"
    /\ \E limit \in 1..MaxCacheLimit :
          /\ Install(constructor(PagerState, limit))
          /\ last' = Opened(exists)
    /\ origin' = IF exists THEN origin ELSE "created"
    /\ reopened' = (last.op # "none")
    /\ recency' = ReadOnly(<<>>)
    /\ UNCHANGED <<allocated, lastWritten, snap, heapVars>>
    /\ UNCHANGED serviceVars

ReadPage ==
    /\ last.op # "none"
    /\ \E pid \in Pids :
          LET r == readPage(PagerState, pid)
          IN /\ Install(r.P)
             /\ last' = [Call("readPage", pid, 0, r.err, r.ret)
                          EXCEPT !.hit = has(cache, pid)]
             /\ recency' = IF r.err = "none" THEN touched(recency, pid) ELSE recency
    /\ snap' = [p \in Pids |-> NoPage]
    /\ UNCHANGED <<origin, reopened, allocated, lastWritten, heapVars>>
    /\ UNCHANGED serviceVars

WritePage ==
    /\ last.op # "none"
    /\ \E pid \in WritePids(PagerState) : \E b \in WriteBufs(PagerState, pid) :
          LET r == writePage(PagerState, pid, b)
          IN /\ Install(r.P)
             /\ last' = Call("writePage", pid, b.len, r.err, NoPage)
             /\ lastWritten' = IF r.err = "none"
                               THEN [lastWritten EXCEPT ![pid] = b.page]
                               ELSE lastWritten
             /\ recency' = IF r.err = "none" THEN Mixed ELSE recency
    /\ snap' = [p \in Pids |-> NoPage]
    /\ UNCHANGED <<origin, reopened, allocated, heapVars>>
    /\ UNCHANGED serviceVars

AllocPage ==
    /\ last.op # "none"
    /\ fd = "null" \/ totalPagesOf(PagerState) \in Pids
    /\ LET r == allocPage(PagerState)
       IN /\ Install(r.P)
          /\ last' = Call("allocPage", r.ret, 0, r.err, NoPage)
          /\ allocated' = IF r.err = "none" THEN Append(allocated, r.ret) ELSE allocated
          /\ lastWritten' =
                IF r.err = "none"
                THEN [p \in Pids |->
                        IF p = r.ret THEN EmptyDataPage
                        ELSE IF p = 0 THEN [header(PagerState) EXCEPT !.w1 = r.ret + 1]
                        ELSE lastWritten[p]]
                ELSE lastWritten
          /\ recency' = IF r.err = "none" THEN Mixed ELSE recency
    /\ snap' = [p \in Pids |-> NoPage]
    /\ UNCHANGED <<origin, reopened, heapVars>>
    /\ UNCHANGED serviceVars

Close ==
    /\ fd = "open"
    /\ Install(close(PagerState))
    /\ last' = Call("close", -1, 0, "none", NoPage)
    /\ snap' = [p \in Pids |-> readPage(PagerState, p).ret]
    /\ UNCHANGED <<origin, reopened, recency, allocated, lastWritten, heapVars>>
    /\ UNCHANGED serviceVars

Next == Open \/ ReadPage \/ WritePage \/ AllocPage \/ Close

Spec == Init /\ [][Next]_vars

SpecForeign == InitForeign /\ [][Next]_vars

\* ---- the executor shell on top of the pager
pagerHistory == <<origin, allocated, lastWritten, reopened, recency, snap>>

\* r is what the call returned: the pager takes its new state, the call is recorded
Done(op, r) ==
    /\ Install(r.P)
    /\ last' = Call(op, -1, 0, r.err, NoPage)

CreateTable ==
    /\ fd = "open"
    /\ totalPagesOf(PagerState) \in Pids
    /\ \E name \in TableNames : Done("CREATE_TABLE", createTable(PagerState, name, FALSE))
    /\ UNCHANGED <<rows, pagerHistory>>
    /\ UNCHANGED serviceVars

Inserted(r, t, rec) ==
    /\ r.err # "bound"
    /\ Done("execute", r)
    /\ rows' = IF r.err = "none" THEN [rows EXCEPT ![t][rec] = @ + 1] ELSE rows

Insert ==
    /\ fd = "open"
    /\ \E t \in TableNames : \E rec \in Recs :
          Inserted(execute(PagerState, Query("INSERT", t, rec, NoCriteria, NoUpdates)),
                   t, rec)
    /\ UNCHANGED pagerHistory
    /\ UNCHANGED serviceVars

Select ==
    /\ fd = "open"
    /\ \E t \in TableNames : \E c \in Criteria :
          Done("execute", execute(PagerState, Query("SELECT", t, NoData, c, NoUpdates)))
    /\ UNCHANGED <<rows, pagerHistory>>
    /\ UNCHANGED serviceVars

Updated(r, t, c, u) ==
    /\ r.err # "bound"
    /\ Done("execute", r)
    /\ rows' = IF r.err = "none" THEN [rows EXCEPT ![t] = BagUpdate(@, c, u)] ELSE rows

Update ==
    /\ fd = "open"
    /\ \E t \in TableNames : \E c \in Criteria : \E u \in Assignments :
          Updated(execute(PagerState, Query("UPDATE", t, NoData, c, u)), t, c, u)
    /\ UNCHANGED pagerHistory
    /\ UNCHANGED serviceVars

Deleted(r, t, c) ==
    /\ Done("execute", r)
    /\ rows' = IF r.err = "none"
               THEN [rows EXCEPT ![t] = [rec \in Recs |->
                        IF evaluate(c, rec) THEN 0 ELSE @[rec]]]
               ELSE rows

Delete ==
    /\ fd = "open"
    /\ \E t \in TableNames : \E c \in Criteria :
          Deleted(execute(PagerState, Query("DELETE", t, NoData, c, NoUpdates)), t, c)
    /\ UNCHANGED pagerHistory
    /\ UNCHANGED serviceVars

\* new SawitDB(path) and db.close(): the engine owns one pager
OpenDb ==
    /\ fd = "null"
    /\ \E limit \in 1..MaxCacheLimit : Install(constructor(PagerState, limit))
    /\ last' = Opened(exists)
    /\ origin' = IF exists THEN origin ELSE "created"
    /\ UNCHANGED <<allocated, lastWritten, reopened, recency, snap, heapVars>>
    /\ UNCHANGED serviceVars

CloseDb ==
    /\ fd = "open"
    /\ Install(close(PagerState))
    /\ last' = Call("close", -1, 0, "none", NoPage)
    /\ UNCHANGED <<pagerHistory, heapVars>>
    /\ UNCHANGED serviceVars

NextHeap == OpenDb \/ CreateTable \/ Insert \/ Select \/ Update \/ Delete \/ CloseDb

SpecHeap == Init /\ [][NextHeap]_vars

\* ---- SecurityManager
SecInstall(r) ==
    /\ permissions' = r.permissions
    /\ permissionsPath' = r.permissionsPath
    /\ permissionsFile' = r.permissionsFile

SecInit ==
    /\ permissionsPath = "null"
    /\ SecInstall(secInit(permissions, permissionsFile))
    /\ checked' = SecCall("init", "", "", "", "none", permissions)
    /\ UNCHANGED <<storageVars, triggerVars, searchVars, procedureVars, replicationVars>>

Grant ==
    /\ permissionsPath = "set"
    /\ \E g \in Grants :
          /\ Len(grant(permissions, permissionsPath, permissionsFile,
                       g.user, g.table, g.action).permissions) <= MaxPermissions
          /\ SecInstall(grant(permissions, permissionsPath, permissionsFile,
                              g.user, g.table, g.action))
          /\ checked' = SecCall("grant", g.user, g.table, g.action, "granted", permissions)
    /\ UNCHANGED <<storageVars, triggerVars, searchVars, procedureVars, replicationVars>>

Revoke ==
    /\ permissionsPath = "set"
    /\ \E g \in Grants :
          /\ SecInstall(revoke(permissions, permissionsPath, permissionsFile,
                               g.user, g.table, g.action))
          /\ checked' = SecCall("revoke", g.user, g.table, g.action,
                                revoke(permissions, permissionsPath, permissionsFile,
                                       g.user, g.table, g.action).ret, permissions)
    /\ UNCHANGED <<storageVars, triggerVars, searchVars, procedureVars, replicationVars>>

Check ==
    /\ permissionsPath = "set"
    /\ \E user \in SecUsers : \E table \in SecTables : \E action \in SecActions :
          checked' = SecCall("check", user, table, action,
                             IF check(permissions, user, table, action).err = "none"
                             THEN check(permissions, user, table, action).ret
                             ELSE check(permissions, user, table, action).err,
                             permissions)
    /\ UNCHANGED <<permissions, permissionsPath, permissionsFile>>
    /\ UNCHANGED <<storageVars, triggerVars, searchVars, procedureVars, replicationVars>>

NextSecurity == SecInit \/ Grant \/ Revoke \/ Check

InitSecurity ==
    /\ NoFile /\ NoTriggers /\ NoSearch /\ NoProcedures /\ NoReplication
    /\ \E f \in PermissionFiles : NoSecurity(f)

SpecSecurity == InitSecurity /\ [][NextSecurity]_vars

\* ---- TriggerManager
TrigInstall(T) ==
    /\ triggers' = T.triggers
    /\ triggerTable' = T.table

\* a new TriggerManager on the same database
NewTriggerManager ==
    /\ stack = <<>>
    /\ triggersLoaded
    /\ triggers' = <<>>
    /\ triggersLoaded' = FALSE
    /\ trigLast' = TrigCall("new", "", "", "none")
    /\ executed' = <<>>
    /\ UNCHANGED <<triggerTable, stack>>
    /\ UNCHANGED <<storageVars, securityVars, searchVars, procedureVars, replicationVars>>

LoadTriggers ==
    /\ stack = <<>>
    /\ ~triggersLoaded
    /\ TrigInstall(loadTriggers(TrigState))
    /\ triggersLoaded' = TRUE
    /\ trigLast' = TrigCall("loadTriggers", "", "", "none")
    /\ executed' = <<>>
    /\ UNCHANGED stack
    /\ UNCHANGED <<storageVars, securityVars, searchVars, procedureVars, replicationVars>>

CreateTrigger ==
    /\ stack = <<>>
    /\ triggersLoaded
    /\ \E name \in TriggerNames : \E event \in TriggerEvents : \E table \in EventTables :
       \E q \in ActionQueries :
          /\ TrigInstall(createTrigger(TrigState, name, event, table, q).T)
          /\ trigLast' =
                [TrigCall("createTrigger", event, table,
                          createTrigger(TrigState, name, event, table, q).err)
                 EXCEPT !.name = name,
                        !.issued = createTrigger(TrigState, name, event, table, q).issued]
    /\ executed' = <<>>
    /\ UNCHANGED <<triggersLoaded, stack>>
    /\ UNCHANGED <<storageVars, securityVars, searchVars, procedureVars, replicationVars>>

DropTrigger ==
    /\ stack = <<>>
    /\ triggersLoaded
    /\ \E name \in TriggerNames :
          /\ TrigInstall(dropTrigger(TrigState, name).T)
          /\ trigLast' =
                [TrigCall("dropTrigger", "", "", dropTrigger(TrigState, name).err)
                 EXCEPT !.name = name, !.issued = dropTrigger(TrigState, name).issued]
    /\ executed' = <<>>
    /\ UNCHANGED <<triggersLoaded, stack>>
    /\ UNCHANGED <<storageVars, securityVars, searchVars, procedureVars, replicationVars>>

\* the engine calls handleEvent(event, table) after a statement of the user
HandleEvent ==
    /\ stack = <<>>
    /\ triggersLoaded
    /\ \E event \in TriggerEvents : \E table \in EventTables :
          /\ stack' = <<Frame(relevantTriggers(triggers, event, table))>>
          /\ trigLast' = TrigCall("handleEvent", event, table, "running")
    /\ executed' = <<>>
    /\ UNCHANGED <<triggers, triggersLoaded, triggerTable>>
    /\ UNCHANGED <<storageVars, securityVars, searchVars, procedureVars, replicationVars>>

\* one turn of the for loop of the innermost handleEvent: engine.query(trigger.action)
\* inside try/catch; a statement that runs makes the engine call handleEvent again
RunTrigger ==
    /\ stack # <<>>
    /\ LET depth == Len(stack)
           top == stack[depth]
           trigger == top.relevant[top.i]
           resumed == [stack EXCEPT ![depth].i = @ + 1]
       IN /\ top.i <= Len(top.relevant)
          /\ executed' = Append(executed, [name |-> trigger.name, depth |-> depth])
          /\ \E outcome \in QueryOutcomes(trigger.action, depth) :
                stack' = IF outcome = "throws" THEN resumed
                         ELSE Append(resumed,
                                     Frame(relevantTriggers(triggers, trigger.action.type,
                                                            trigger.action.table)))
    /\ UNCHANGED <<triggers, triggersLoaded, triggerTable, trigLast>>
    /\ UNCHANGED <<storageVars, securityVars, searchVars, procedureVars, replicationVars>>

\* the for loop of the innermost handleEvent is over: it returns
ReturnFromEvent ==
    /\ stack # <<>>
    /\ stack[Len(stack)].i > Len(stack[Len(stack)].relevant)
    /\ stack' = SubSeq(stack, 1, Len(stack) - 1)
    /\ trigLast' = IF Len(stack) = 1 THEN [trigLast EXCEPT !.status = "returned"] ELSE trigLast
    /\ UNCHANGED <<triggers, triggersLoaded, triggerTable, executed>>
    /\ UNCHANGED <<storageVars, securityVars, searchVars, procedureVars, replicationVars>>

NextTriggers ==
    \/ NewTriggerManager \/ LoadTriggers \/ CreateTrigger \/ DropTrigger
    \/ HandleEvent \/ RunTrigger \/ ReturnFromEvent

SpecTriggers == Init /\ [][NextTriggers]_vars

\* ---- SearchManager
SearchInit ==
    /\ indexPath = "null"
    /\ index' = searchInit(index, indexFile)
    /\ indexPath' = "set"
    /\ searched' = SearchCall("init", "", <<>>, "none", {})
    /\ UNCHANGED <<indexFile, indexedUnder>>
    /\ UNCHANGED <<storageVars, securityVars, triggerVars, procedureVars, replicationVars>>

\* the tokens indexRow reaches before it is stopped by an error
Reached(tokens) ==
    IF \E i \in 1..Len(tokens) : tokens[i] \in ObjectPrototype
    THEN SubSeq(tokens, 1, (CHOOSE i \in 1..Len(tokens) :
                               /\ tokens[i] \in ObjectPrototype
                               /\ \A j \in 1..(i - 1) : tokens[j] \notin ObjectPrototype) - 1)
    ELSE tokens

IndexRow ==
    /\ indexPath = "set"
    /\ \E table \in SearchTables : \E id \in RowIds : \E text \in Texts :
          /\ [id |-> id] \in allRows(table)
          /\ index' = indexRow(index, table, id, <<Num, text>>).index
          /\ indexFile' = IF indexRow(index, table, id, <<Num, text>>).err = "none"
                          THEN searchSave(index', indexPath, indexFile)
                          ELSE indexFile
          /\ indexedUnder' = indexedUnder \cup
                {<<table, id, tokenize(text)[i]>> : i \in 1..Len(Reached(tokenize(text)))}
          /\ searched' = [SearchCall("indexRow", table, text,
                                     indexRow(index, table, id, <<Num, text>>).err, {})
                           EXCEPT !.id = id]
    /\ UNCHANGED indexPath
    /\ UNCHANGED <<storageVars, securityVars, triggerVars, procedureVars, replicationVars>>

DeindexRow ==
    /\ indexPath = "set"
    /\ \E table \in SearchTables : \E id \in RowIds :
          /\ [id |-> id] \in allRows(table)
          /\ index' = deindexRow(index, table, id)
          /\ indexFile' = searchSave(index', indexPath, indexFile)
          /\ indexedUnder' = {p \in indexedUnder : ~(p[1] = table /\ p[2] = id)}
          /\ searched' = [SearchCall("deindexRow", table, <<>>, "none", {})
                           EXCEPT !.id = id]
    /\ UNCHANGED indexPath
    /\ UNCHANGED <<storageVars, securityVars, triggerVars, procedureVars, replicationVars>>

Search ==
    /\ indexPath = "set"
    /\ \E table \in SearchTables : \E term \in Texts : \E hasGetRow \in BOOLEAN :
          searched' = SearchCall("search", table, term,
                                 search(index, table, term, hasGetRow).err,
                                 search(index, table, term, hasGetRow).ret)
    /\ UNCHANGED <<index, indexPath, indexFile, indexedUnder>>
    /\ UNCHANGED <<storageVars, securityVars, triggerVars, procedureVars, replicationVars>>

NextSearch == SearchInit \/ IndexRow \/ DeindexRow \/ Search

SpecSearch == Init /\ [][NextSearch]_vars

\* ---- ProcedureManager, on the engine's pager
\* r is what the call returned
ProcDone(r, call) ==
    /\ r.err # "bound"
    /\ Install(r.P)
    /\ procedures' = r.procedures
    /\ procLast' = [call EXCEPT !.status = r.err]

\* a new ProcedureManager on the same engine
NewProcedureManager ==
    /\ proceduresLoaded
    /\ procedures' = EmptyMap
    /\ proceduresLoaded' = FALSE
    /\ procLast' = ProcCall("new", 0, 0, "none")
    /\ UNCHANGED <<storageVars, securityVars, triggerVars, searchVars, replicationVars>>

LoadProcedures ==
    /\ fd = "open"
    /\ ~proceduresLoaded
    /\ ProcDone(loadProcedures(PagerState, procedures), ProcCall("loadProcedures", 0, 0, ""))
    /\ proceduresLoaded' = TRUE
    /\ UNCHANGED <<last, rows, pagerHistory>>
    /\ UNCHANGED <<securityVars, triggerVars, searchVars, replicationVars>>

SaveProcedure ==
    /\ fd = "open"
    /\ proceduresLoaded
    /\ \E name \in ProcedureNames : \E body \in ProcedureBodies :
          ProcDone(saveProcedure(PagerState, procedures, name, body),
                   ProcCall("saveProcedure", name, body, ""))
    /\ UNCHANGED <<proceduresLoaded, last, rows, pagerHistory>>
    /\ UNCHANGED <<securityVars, triggerVars, searchVars, replicationVars>>

DropProcedure ==
    /\ fd = "open"
    /\ proceduresLoaded
    /\ \E name \in ProcedureNames :
          ProcDone(dropProcedure(PagerState, procedures, name),
                   ProcCall("dropProcedure", name, 0, ""))
    /\ UNCHANGED <<proceduresLoaded, last, rows, pagerHistory>>
    /\ UNCHANGED <<securityVars, triggerVars, searchVars, replicationVars>>

NextProcedures ==
    \/ OpenDb \/ CloseDb
    \/ NewProcedureManager \/ LoadProcedures \/ SaveProcedure \/ DropProcedure

SpecProcedures == Init /\ [][NextProcedures]_vars

\* ---- ReplicationManager
Configured(r, call) ==
    /\ r.R.listeners <= MaxListeners
    /\ role' = r.R.role
    /\ primarySocket' = r.R.primarySocket
    /\ listeners' = r.R.listeners
    /\ replLast' = [call EXCEPT !.status = r.err]

Configure ==
    /\ \E roleName \in RoleNames : \E host \in Hosts : \E port \in Ports :
       \E hasDbevent \in BOOLEAN :
          Configured(configure(ReplState, roleName, host, port, hasDbevent),
                     ReplCall("configure", roleName, host, port, "", ReplState))
    /\ UNCHANGED <<storageVars, securityVars, triggerVars, searchVars, procedureVars>>

NextReplication == Configure

SpecReplication == Init /\ [][NextReplication]_vars

\* ======================================================================
\* Properties of the pager
\* ======================================================================
RECURSIVE MaxOf(_)
MaxOf(s) == IF s = <<>> THEN 0
            ELSE LET m == MaxOf(Tail(s)) IN IF Head(s) > m THEN Head(s) ELSE m

Completed(op) == last.op = op /\ last.status = "none"

\* C1: read-your-writes. A readPage(p) that completes returns exactly the bytes
\* passed to the most recent completed writePage(p, buf), also after p was evicted.
C1_ReadYourWrites ==
    (Completed("readPage") /\ lastWritten[last.pid] # NoPage)
        => last.ret = lastWritten[last.pid]

\* a page written through this pager, evicted since, and read back from the file
C1_Witness ==
    /\ Completed("readPage") /\ ~last.hit /\ ~reopened
    /\ lastWritten[last.pid] \in DataPages
    /\ last.ret = lastWritten[last.pid]

\* C2: after every completed readPage, writePage or allocPage the cache holds at most
\* cacheLimit pages.
C2_CacheWithinLimit ==
    (last.op \in {"readPage", "writePage", "allocPage"} /\ last.status = "none")
        => Len(cache) <= cacheLimit

\* C3: after close and a new open of the same path, readPage(p) returns for every p
\* below the header's total pages the bytes it returned just before close.
C3_PersistAcrossReopen ==
    (last.op = "open" /\ snap[0] # NoPage)
        => \A p \in Pids :
              p < totalPagesOf(PagerState) => readPage(PagerState, p).ret = snap[p]

\* a reopened file with two pages written and allocated before the close
C3_Witness ==
    /\ last.op = "open" /\ snap[0] # NoPage
    /\ origin = "created"
    /\ totalPagesOf(PagerState) = 3
    /\ snap[1] \in DataPages
    /\ snap[2] = EmptyDataPage

\* C4: on a file the pager created, the header's total pages is the highest id
\* allocPage ever returned plus 1 (page 0 counting as allocated by the creation);
\* the returned ids are strictly increasing and never 0, and each allocPage returns
\* the total it found.
C4_AllocInvariant ==
    origin = "created" =>
        /\ readSync(file, 0).w1 = MaxOf(allocated) + 1
        /\ totalPagesOf(PagerState) = MaxOf(allocated) + 1
        /\ \A i \in 1..Len(allocated) : allocated[i] # 0
        /\ \A i, j \in 1..Len(allocated) : i < j => allocated[i] < allocated[j]
        /\ Completed("allocPage") => last.pid = allocated[Len(allocated)]

C4_Witness ==
    /\ origin = "created"
    /\ Completed("allocPage")
    /\ Len(allocated) = 2
    /\ ~has(cache, 1)

\* C5: a completed writePage(p, buf) leaves p at the most-recently-used end of the
\* cache order.
C5_WritePromotes ==
    Completed("writePage") => cache[Len(cache)].pid = last.pid

\* C6: opening an existing file whose first four bytes are not the magic fails with
\* CorruptFile and leaves no usable pager.
C6_OpenRejectsBadMagic ==
    (last.op = "open" /\ readSync(file, 0).w0 # MAGIC)
        => (last.status = "CorruptFile" /\ fd = "null")

\* C7: readPage(pid) with pid at or beyond the header's total pages fails with
\* InvalidPageId instead of returning a buffer.
C7_ReadBeyondTotalFails ==
    (last.op = "readPage" /\ fd = "open" /\ origin = "created"
        /\ last.pid >= totalPagesOf(PagerState))
        => (last.status = "InvalidPageId" /\ last.ret = NoPage)

\* C8: writePage with a buffer whose length is not PAGE_SIZE raises an error and
\* changes neither the file nor the cache content nor the cache order.
C8_BadLengthAborts ==
    [][(last'.op = "writePage" /\ last'.len # PAGE_SIZE)
          => /\ last'.status = "Buffer must be 4KB"
             /\ file' = file /\ exists' = exists
             /\ cache' = cache /\ fd' = fd]_vars

C8_Witness ==
    /\ last.op = "writePage" /\ last.len # PAGE_SIZE
    /\ last.status = "Buffer must be 4KB"
    /\ fd = "open" /\ Len(cache) = 2
    /\ last.pid \notin {cache[1].pid, cache[2].pid}

SelectOf(t, c) == execute(PagerState, Query("SELECT", t, NoData, c, NoUpdates))
\* r, the result of a SELECT on t filtered by c, holds the rows of t that satisfy c
SelectsExactly(r, t, c) == r.err = "none" => BagOfSeq(r.ret) = BagWhere(rows[t], c)

\* C10: after any sequence of INSERT, UPDATE and DELETE, SELECT on a table filtered
\* by a predicate returns exactly the rows inserted, not deleted, whose latest value
\* satisfies the predicate, each as often as it was inserted.
C10_SelectExact ==
    fd = "open" =>
          \A t \in TableNames : \A c \in Criteria : SelectsExactly(SelectOf(t, c), t, c)

\* a SELECT that returns one of two live rows, from a table of two pages that holds a
\* tombstoned slot left by an UPDATE that moved its row
C10_Witness ==
    /\ Completed("execute")
    /\ \E c \in Criteria : Len(SelectOf("kebun", c).ret) = 1
    /\ \E t \in TableNames : \E rec \in Recs : rows[t][rec] = 2
    /\ totalPagesOf(PagerState) = 3
    /\ \E s \in {readSync(file, 1).rest[i] : i \in 1..Len(readSync(file, 1).rest)} : s.dead

\* ======================================================================
\* Properties of the catalog
\* ======================================================================
\* the outcome r of createTable(name) on a catalog that holds name
RefusesExisting(r) ==
    /\ r.err = "TableExists"
    /\ r.P.file = file
    /\ header(r.P) = header(PagerState)
    /\ totalPagesOf(r.P) = totalPagesOf(PagerState)

\* C11: createTable of a name the catalog already holds fails with TableExists,
\* allocates no page and leaves the header page (total pages, table count, entries)
\* and the file as they were.
C11_CreateExistingRefused ==
    fd = "open" =>
        \A name \in TableNames :
            findTableEntry(PagerState, name).entry # NoEntry
                => RefusesExisting(createTable(PagerState, name, FALSE))

\* a CREATE TABLE of the existing table has just been refused, the table holding rows
C11_Witness ==
    /\ fd = "open"
    /\ last.op = "CREATE_TABLE" /\ last.status = "TableExists"
    /\ findTableEntry(PagerState, "kebun").entry.head = 1
    /\ \E rec \in Recs : rows["kebun"][rec] > 0

\* ======================================================================
\* Properties of the SecurityManager
\* ======================================================================
\* the permission list perms holds an entry for user that covers table and action
Covered(perms, user, table, action) ==
    \E p \in {perms[i] : i \in 1..Len(perms)} :
        /\ p.user = user
        /\ p.table \in {table, "*"}
        /\ p.action \in {action, "all"}

\* C12: check(user, table, action) returns true exactly when user is empty, or is
\* 'admin', or the list holds an entry of that user whose table is the target table
\* or '*' and whose action is the requested action or 'all'; otherwise it raises an
\* access-denied error; the list is as it was before the call.
C12_CheckDecides ==
    checked.op = "check" =>
        /\ checked.outcome \in {"true", "AccessDenied"}
        /\ checked.outcome = "true" <=>
              \/ checked.user = ""
              \/ checked.user = "admin"
              \/ Covered(checked.before, checked.user, checked.table, checked.action)
        /\ permissions = checked.before

\* bob is let through by a wildcard entry of two, on a table the list does not name
C12_Witness ==
    /\ checked.op = "check" /\ checked.outcome = "true"
    /\ checked.user = "bob" /\ checked.table = "sawah" /\ checked.action = "write"
    /\ Len(permissions) = 2

\* C13: with no permissions file (the list is empty after init), check allows every
\* user, table and action.
C13_OpenByDefault ==
    (checked.op = "check" /\ permissions = <<>> /\ permissionsFile = PermFile("json", <<>>))
        => checked.outcome = "true"

\* the triples a permission list grants
Triples(perms) == {perms[i] : i \in 1..Len(perms)}
Triple(call) == [user |-> call.user, table |-> call.table, action |-> call.action]

\* C22: the permission list never holds two entries with the same (user, table,
\* action); after grant the granted triples are those of before plus the granted one,
\* so granting a triple that is present leaves the set of granted triples as it was.
C22_GrantIdempotent ==
    /\ \A i, j \in 1..Len(permissions) : permissions[i] = permissions[j] => i = j
    /\ checked.op = "grant" =>
          /\ Triples(permissions) = Triples(checked.before) \cup {Triple(checked)}
          /\ Triple(checked) \in Triples(checked.before)
                => Triples(permissions) = Triples(checked.before)

\* the first of two entries is granted again: the list changed, its triples did not
C22_Witness ==
    /\ checked.op = "grant"
    /\ Len(checked.before) = 2
    /\ checked.before[1] = Triple(checked)
    /\ permissions # checked.before
    /\ Triples(permissions) = Triples(checked.before)

\* ======================================================================
\* Properties of the TriggerManager
\* ======================================================================
\* the names of the trigger actions run by the outermost handleEvent itself, in order
RunByOutermost ==
    LET own == SelectSeq(executed, LAMBDA e : e.depth = 1)
    IN [i \in 1..Len(own) |-> own[i].name]

\* the names of the triggers on (event, table), in the order of the list
MatchingNames(event, table) ==
    LET idx == {i \in 1..Len(triggers) :
                   triggers[i].event = event /\ triggers[i].table_name = table}
        RECURSIVE Ordered(_)
        Ordered(S) == IF S = {} THEN <<>>
                      ELSE LET m == CHOOSE i \in S : \A j \in S : i <= j
                           IN <<triggers[m].name>> \o Ordered(S \ {m})
    IN Ordered(idx)

\* C14: a handleEvent call caused by a trigger's action runs no trigger action: all
\* actions run belong to the outermost handleEvent.
C14_NoReentrantRun == \A i \in 1..Len(executed) : executed[i].depth = 1

\* C15: handleEvent(event, table) runs the action of exactly the triggers whose event
\* and table_name equal event and table, once each and in creation order, and returns
\* normally whether or not actions raised errors.
C15_MatchingOnceInOrder ==
    (trigLast.op = "handleEvent" /\ trigLast.status = "returned")
        => RunByOutermost = MatchingNames(trigLast.event, trigLast.table)

\* handleEvent has returned after running two triggers of the event, the first of
\* which raised an error, while the list holds these two triggers only
C15_Witness ==
    /\ trigLast.op = "handleEvent" /\ trigLast.status = "returned"
    /\ RunByOutermost = <<"t2", "t1">>
    /\ triggers[1].action.type = "bad"

\* the spellings of the events createTrigger accepts, whatever their case
ValidEventSpellings == {"INSERT", "insert", "UPDATE", "update", "DELETE", "delete"}
NameInList(name) == \E i \in 1..Len(triggers) : triggers[i].name = name

\* C21: createTrigger with a name that is in the list or with an event other than
\* INSERT, UPDATE, DELETE (in any case) raises an error and leaves the list and the
\* _triggers table as they were; dropTrigger of a name not in the list raises an error
\* and issues no delete; the names in the list are unique.
C21_TriggerNamesUnique ==
    [][/\ (trigLast'.op = "createTrigger"
              /\ (NameInList(trigLast'.name) \/ trigLast'.event \notin ValidEventSpellings))
          => /\ trigLast'.status # "none" /\ trigLast'.issued = <<>>
             /\ triggers' = triggers /\ triggerTable' = triggerTable
       /\ (trigLast'.op = "dropTrigger" /\ ~NameInList(trigLast'.name))
          => /\ trigLast'.status # "none" /\ trigLast'.issued = <<>>
             /\ triggers' = triggers /\ triggerTable' = triggerTable
       /\ \A i, j \in 1..Len(triggers') :
             triggers'[i].name = triggers'[j].name => i = j]_vars

\* a second createTrigger of a name, with another event and table, was refused while
\* the list holds two triggers
C21_Witness ==
    /\ trigLast.op = "createTrigger" /\ trigLast.status = "already exists"
    /\ Len(triggers) = 2
    /\ triggers[2].name = trigLast.name
    /\ triggers[2].event # trigLast.event /\ trigLast.event \in ValidEventSpellings
    /\ triggerTable.rows = triggers

\* ======================================================================
\* Properties of the SearchManager
\* ======================================================================
\* the rows of table indexed under every token of term
IndexedUnderAll(table, term) ==
    {r \in allRows(table) :
        \A i \in 1..Len(tokenize(term)) : <<table, r.id, tokenize(term)[i]>> \in indexedUnder}

\* C16: search(table, term) returns exactly the rows of table that are indexed under
\* every token of term, and the empty list when term yields no tokens.
C16_SearchAnd ==
    searched.op = "search" =>
        /\ searched.status = "none"
        /\ searched.ret = IF tokenize(searched.term) = <<>> THEN {}
                          ELSE IndexedUnderAll(searched.table, searched.term)

\* the tokens of the index ix that carry a posting for row id of table
PostedTokens(ix, table, id) ==
    {token \in DOMAIN ix : \E i \in 1..Len(ix[token]) : ix[token][i] = Posting(table, id)}
TokenSet(text) == {tokenize(text)[i] : i \in 1..Len(tokenize(text))}
OtherRowsKept(ix, after, table, id) ==
    \A t \in SearchTables : \A r \in RowIds :
        (t # table \/ r # id) => PostedTokens(after, t, r) = PostedTokens(ix, t, r)
WellFormedIndex(ix) ==
    \A token \in DOMAIN ix :
        /\ ix[token] # <<>>
        /\ \A i, j \in 1..Len(ix[token]) : ix[token][i] = ix[token][j] => i = j

\* C23: after deindexRow(table, id) followed by indexRow(table, id, data) the tokens
\* with a posting for (table, id) are exactly the tokens of data's string values; both
\* calls leave the postings of every other row as they were, no token holds two
\* postings of one row and no token is left with an empty list.
C23_ReindexExact ==
    [][/\ searched'.op = "deindexRow" =>
             /\ PostedTokens(index', searched'.table, searched'.id) = {}
             /\ OtherRowsKept(index, index', searched'.table, searched'.id)
             /\ WellFormedIndex(index')
       /\ (searched.op = "deindexRow" /\ searched'.op = "indexRow"
              /\ searched'.table = searched.table /\ searched'.id = searched.id) =>
             /\ PostedTokens(index', searched'.table, searched'.id) = TokenSet(searched'.term)
             /\ OtherRowsKept(index, index', searched'.table, searched'.id)
             /\ WellFormedIndex(index')]_vars

\* ======================================================================
\* Properties of the ProcedureManager
\* ======================================================================
\* r is what SELECT * FROM _procedures returns: one row per name, the rows give the map
OneRowPerName(r) ==
    /\ r.err = "none"
    /\ \A i, j \in 1..Len(r.ret) : r.ret[i].id = r.ret[j].id => i = j
    /\ DOMAIN procedures = {r.ret[i].id : i \in 1..Len(r.ret)}
    /\ \A i \in 1..Len(r.ret) : procedures[r.ret[i].id] = r.ret[i].val

\* what a new manager holds after loadProcedures
Reloaded(l) == l.err = "none" /\ l.procedures = procedures

\* C17: once loadProcedures has run, after any saveProcedure and dropProcedure calls
\* the table _procedures holds at most one row per name, the map name -> body equals
\* that of the rows, and loadProcedures of a new manager rebuilds the same map.
C17_ProcedureUpsert ==
    (fd = "open" /\ proceduresLoaded) =>
        /\ OneRowPerName(execute(PagerState, Query("SELECT", ProcedureTable, NoData,
                                                    NoCriteria, NoUpdates)))
        /\ Reloaded(loadProcedures(PagerState, EmptyMap))

\* a save of an existing name has replaced a short body by a long one, leaving the
\* tombstone of the old row in the head page, the other name being stored too
C17_Witness ==
    /\ fd = "open" /\ proceduresLoaded
    /\ procLast.op = "saveProcedure" /\ procLast.status = "none" /\ procLast.body = 1
    /\ DOMAIN procedures = ProcedureNames
    /\ \E i \in 1..Len(readSync(file, 1).rest) :
          /\ readSync(file, 1).rest[i].dead
          /\ decode(readSync(file, 1).rest[i].payload).id = procLast.name

\* ======================================================================
\* Properties of the page cache
\* ======================================================================
Keys(c) == [i \in 1..Len(c) |-> c[i].pid]
PosIn(seq, k) == CHOOSE i \in 1..Len(seq) : seq[i] = k
Without(seq, k) == SelectSeq(seq, LAMBDA x : x # k)

\* what a completed readPage(pid) that returned buf did to the cache
ReadHit(pid, buf) ==
    /\ Keys(cache') = Append(Without(Keys(cache), pid), pid)
    /\ \A i \in 1..Len(cache) : \E j \in 1..Len(cache') : cache'[j] = cache[i]
    /\ cache'[Len(cache')].buf = buf

ReadMiss(pid, buf) ==
    /\ cache'[Len(cache')] = [pid |-> pid, buf |-> buf]
    /\ IF Len(cache) + 1 > cacheLimit
       THEN /\ Len(cache') = Len(cache)
            /\ Keys(cache') = Append(Tail(Keys(cache)), pid)
            /\ \A i \in 2..Len(cache) : cache'[i - 1] = cache[i]
            /\ cache[1].pid # pid
            /\ recency.readOnly =>
                  \A i \in 2..Len(cache) :
                      PosIn(recency.order, cache[1].pid) < PosIn(recency.order, cache[i].pid)
       ELSE cache' = Append(cache, [pid |-> pid, buf |-> buf])

\* C19: a readPage hit moves the page to the MRU end of the cache; a readPage miss
\* that makes the cache exceed its cap evicts exactly one page, the one at the LRU
\* end (while only readPage is called: the cached page whose last read is oldest),
\* and never the page just read.
C19_ReadLru ==
    [][(last'.op = "readPage" /\ last'.status = "none") =>
          IF \E i \in 1..Len(cache) : cache[i].pid = last'.pid
          THEN ReadHit(last'.pid, last'.ret)
          ELSE ReadMiss(last'.pid, last'.ret)]_vars

\* pages 0, 1 read, 0 read again (hit), then 2 read with the cap at 2: page 1 went
C19_Witness ==
    /\ Completed("readPage") /\ ~last.hit
    /\ cacheLimit = 2
    /\ recency = ReadOnly(<<1, 0, 2>>)
    /\ Keys(cache) = <<0, 2>>

\* C20: after allocPage returned n, readPage(n) yields an initialized empty data page
\* (next = 0, count = 0, free offset = 8, the rest zero), from the cache and, once
\* evicted, from the file, also when page n was cached as a zero-filled buffer before.
C20_AllocatedPageEmpty ==
    Completed("allocPage") =>
        /\ readPage(PagerState, last.pid).err = "none"
        /\ readPage(PagerState, last.pid).ret = EmptyDataPage
        /\ readSync(file, last.pid) = EmptyDataPage
        /\ EmptyDataPage.w0 = 0 /\ EmptyDataPage.rest = <<>>
        /\ slotCount(EmptyDataPage) = 0 /\ freeOffset(EmptyDataPage) = 8
        /\ last.pid >= 1 /\ last.pid < totalPagesOf(PagerState)

\* page n was in the cache before page 0 was read by allocPage: its key kept its
\* place in front of page 0's, and only a readPage beyond the total can have put it
\* there, as a zero-filled buffer
C20_Witness ==
    /\ Completed("allocPage") /\ origin = "created" /\ ~reopened
    /\ \E i, j \in 1..Len(cache) :
          i < j /\ cache[i].pid = last.pid /\ cache[j].pid = 0
    /\ readPage(PagerState, last.pid).ret = EmptyDataPage

\* the bytes the pager serves for page p: the cached buffer, else the file's
Served(c, f, p) ==
    IF \E i \in 1..Len(c) : c[i].pid = p
    THEN c[CHOOSE i \in 1..Len(c) : c[i].pid = p].buf
    ELSE readSync(f, p)
CachedPids(c) == {c[i].pid : i \in 1..Len(c)}

\* C24: allocPage, finding T total pages, changes the total-pages word of page 0 and
\* the content of page T only: the header's magic, table count and catalog entries and
\* every other page are as before, in the file and in the cache.
C24_AllocFrame ==
    [][(last'.op = "allocPage" /\ last'.status = "none") =>
          /\ last'.pid = Served(cache, file, 0).w1
          /\ readSync(file', 0) = [readSync(file, 0) EXCEPT !.w1 = last'.pid + 1]
          /\ Served(cache', file', 0) = [Served(cache, file, 0) EXCEPT !.w1 = last'.pid + 1]
          /\ \A p \in Pids \ {0, last'.pid} :
                /\ readSync(file', p) = readSync(file, p)
                /\ p \in CachedPids(cache') =>
                      /\ p \in CachedPids(cache)
                      /\ Served(cache', file', p) = Served(cache, file, p)
                /\ p < last'.pid => Served(cache', file', p) = Served(cache, file, p)
          /\ Len(file') = IF Len(file) > last'.pid + 1 THEN Len(file) ELSE last'.pid + 1]_vars

\* page 2 was allocated on a file whose header holds a catalog entry, while page 1,
\* written with a slot, is in the cache
C24_Witness ==
    /\ Completed("allocPage") /\ last.pid = 2
    /\ readSync(file, 0).w2 = 1 /\ readSync(file, 0).rest = <<"entry">>
    /\ 1 \in CachedPids(cache)
    /\ Served(cache, file, 1) = Page(0, 1 + 20 * 65536, 0, <<"slot">>)

\* ======================================================================
\* Properties of the ReplicationManager
\* ======================================================================
\* the spellings of the role names, whatever their case
PrimaryNames == {"primary", "PUSAT"}
ReplicaNames == {"Replica", "cabang"}

\* C18: the role is always STANDALONE, PRIMARY or REPLICA; configure with a primary
\* name sets PRIMARY, with a replica name, a host and a port sets REPLICA, with any
\* other name sets STANDALONE; configure as replica without a host or without a port
\* raises an error and leaves the role and the primary connection as they were.
C18_RoleMachine ==
    /\ role \in {"STANDALONE", "PRIMARY", "REPLICA"}
    /\ replLast.op = "configure" =>
          IF replLast.roleName \in PrimaryNames
          THEN replLast.status = "none" /\ role = "PRIMARY"
          ELSE IF replLast.roleName \notin ReplicaNames
          THEN replLast.status = "none" /\ role = "STANDALONE"
          ELSE IF replLast.host # "" /\ replLast.port # 0
          THEN /\ replLast.status = "none" /\ role = "REPLICA"
               /\ primarySocket = Socket(replLast.host, replLast.port)
          ELSE /\ replLast.status # "none"
               /\ role = replLast.before.role
               /\ primarySocket = replLast.before.primarySocket

\* a primary that was a replica before is asked to become a replica without a port
C18_Witness ==
    /\ replLast.op = "configure" /\ replLast.status # "none"
    /\ replLast.roleName = "cabang" /\ replLast.host # "" /\ replLast.port = 0
    /\ role = "PRIMARY"
    /\ primarySocket # NoSocket

====
